---- MODULE Spec2Model ----
(***************************************************************************)
(* Alert evaluation engine of the stock watcher: the on-demand run         *)
(* runAlertsOnce (src/src/utils/send-discord.ts) and the scheduled run     *)
(* runCron (src/src/index.ts), both working on the STOCK_STATE key-value   *)
(* store.  A cycle is modelled step by step, one step per await of the     *)
(* code (KV get, each tryAlert with its sendDiscord, KV put), so that two  *)
(* cycles can interleave exactly where the code can be interleaved.        *)
(***************************************************************************)
EXTENDS Integers, Sequences, FiniteSets, TLC

(* ---------------------------------------------------------------- bounds *)
\* First and largest clock reading of a behaviour (Date.now(), in ticks).
\* Date.now() is epoch milliseconds, far beyond any cooldown: the clock starts
\* at a reading that is at least the cooldown.
StartTime == 2
MaxTime == 4
\* Number of symbol evaluations in a behaviour: a cycle is started only if
\* the snapshots of its batch fit in what is left.
MaxEvals == 2
\* The same, in the behaviours where only S1 has snapshots.
MaxLongEvals == 4
\* The same, in the behaviours of overlapping cycles.
MaxOverlapEvals == 2
\* Number of chunks of the rule strings the parser is checked on.
MaxChunks == 2

(* ----------------------------------------------------- program constants *)
\* Marks an optional value that is null/undefined; all real prices are >= 0.
Null == -1
\* cooldownMs, in clock ticks (ALERT_COOLDOWN_MINUTES * 60 * 1000).
CooldownMs == 2
\* pctThreshold, in percent (PCT_THRESHOLD).
PctThreshold == 10

Procs == {"cron", "once"}
Symbols == {"S1", "S2"}
\* env.WATCHLIST after split/trim/uppercase/filter.
Watchlist == <<"S1", "S2">>
Keys == {"price_below", "price_above", "pct_up", "pct_down"}
\* The order of the four tryAlert call sites.
KeyOrder == <<"price_below", "price_above", "pct_up", "pct_down">>

\* The snapshots the provider may return for a symbol: a trade at 9 (at most
\* the below threshold, 10% under the previous close), a minute bar only, at 11
\* (at least the above threshold, 10% over the previous close), a trade at 9
\* with a previous close of 0 or with no previous close (no percent change),
\* and no price at all.
SnapChoices ==
  { [latestTrade |-> 9,    minuteBar |-> 10,   prevDailyBar |-> 10],
    [latestTrade |-> Null, minuteBar |-> 11,   prevDailyBar |-> 10],
    [latestTrade |-> 9,    minuteBar |-> Null, prevDailyBar |-> 0],
    [latestTrade |-> 9,    minuteBar |-> Null, prevDailyBar |-> Null],
    [latestTrade |-> Null, minuteBar |-> Null, prevDailyBar |-> Null] }

\* c.env.TRIGGER_TOKEN, and the x-trigger-token headers requests come with:
\* no header, an empty one, a wrong one, the right one.
TriggerToken == "secret"
NoHeader == "<none>"
Tokens == {NoHeader, "", "wrong", "secret"}

\* opts.symbols of an on-demand run: unset (empty), or an explicit list.
Overrides == { <<>>, <<"S1">>, <<"S2">> }

(* ------------------------------------------------------------- utilities *)
Range(f) == { f[x] : x \in DOMAIN f }
EmptyMap == [x \in {} |-> 0]
\* m[k] ?? d
Get(m, k, d) == IF k \in DOMAIN m THEN m[k] ELSE d
\* m[k] = v
Put(m, k, v) == [x \in (DOMAIN m) \cup {k} |-> IF x = k THEN v ELSE m[x]]
Last(s) == s[Len(s)]

\* The batches fetchSnapshotsAlpaca may return for a list of symbols, when
\* the provider has the snapshots known[s] for a symbol s: any symbol may be missing
\* from the response.
Batches(syms, known) ==
  UNION { { b \in [D -> SnapChoices] : \A s \in D : b[s] \in known[s] } :
            D \in SUBSET (Range(syms) \cap DOMAIN known) }

\* What a cycle takes from the bound on evaluations: one per snapshot of its
\* batch, and one for an empty batch.
Cost(batch) == IF DOMAIN batch = {} THEN 1 ELSE Cardinality(DOMAIN batch)

(* ------------------------------------------------------ parsePriceLevels *)
\* A rule string is modelled by its chunks (split on ";"), a chunk by the
\* text before ":" and the list of its k=v clauses (split on ","), empty
\* when the chunk has no ":" or nothing after it.
\* Marks a value v whose Number(v) is not finite; thresholds are >= 0.
NaN == -2
\* symRaw.trim().toUpperCase()
Normalise(symRaw) ==
  CASE symRaw \in {"S1", " s1"} -> "S1"
    [] symRaw \in {"S2"} -> "S2"
    [] OTHER -> ""

\* The inner loop: rules of one chunk, from an empty record.
RECURSIVE ParseRules(_, _)
ParseRules(kvs, rules) ==
  IF kvs = <<>> THEN rules
  ELSE LET kv == Head(kvs)
           next == IF kv.v = NaN THEN rules
                   ELSE IF kv.k = "below" THEN [rules EXCEPT !.below = kv.v]
                   ELSE IF kv.k = "above" THEN [rules EXCEPT !.above = kv.v]
                   ELSE rules
       IN ParseRules(Tail(kvs), next)

\* Variant: the rules of a later chunk are merged into the symbol's entry.
RECURSIVE ParsePriceLevels_Merging(_, _)
ParsePriceLevels_Merging(input, out) ==
  IF input = <<>> THEN out
  ELSE LET part == Head(input)
           symbol == Normalise(part.symRaw)
           next == IF symbol = "" \/ part.rulesRaw = <<>> THEN out
                   ELSE Put(out, symbol,
                            ParseRules(part.rulesRaw,
                                       Get(out, symbol, [below |-> Null, above |-> Null])))
       IN ParsePriceLevels_Merging(Tail(input), next)

\* parsePriceLevels(input), out being the record built so far: a chunk
\* without symbol or rule clause is skipped, out[symbol] = rules otherwise.
RECURSIVE ParsePriceLevels(_, _)
ParsePriceLevels(input, out) ==
  IF input = <<>> THEN out
  ELSE LET part == Head(input)
           symbol == Normalise(part.symRaw)
           next == IF symbol = "" \/ part.rulesRaw = <<>> THEN out
                   ELSE Put(out, symbol,
                            ParseRules(part.rulesRaw, [below |-> Null, above |-> Null]))
       IN ParsePriceLevels(Tail(input), next)

\* env.PRICE_LEVELS = "S1:below=9;S2:above=11", and what the runs parse from it.
PriceLevelsEnv ==
  << [symRaw |-> "S1", rulesRaw |-> <<[k |-> "below", v |-> 9]>>],
     [symRaw |-> "S2", rulesRaw |-> <<[k |-> "above", v |-> 11]>>] >>
PriceLevels == ParsePriceLevels(PriceLevelsEnv, EmptyMap)

\* The rule strings the parser is checked on: up to MaxChunks chunks.
RulesRawChoices ==
  { <<>>,
    <<[k |-> "below", v |-> 9]>>,
    <<[k |-> "above", v |-> 11]>>,
    <<[k |-> "below", v |-> 8], [k |-> "above", v |-> 12]>>,
    <<[k |-> "above", v |-> NaN]>>,
    <<[k |-> "other", v |-> 5]>> }
Chunks == [symRaw : {"S1", " s1", "S2", ""}, rulesRaw : RulesRawChoices]
RuleStrings == UNION { [1..n -> Chunks] : n \in 0..MaxChunks }

VARIABLES
  ruleString, \* env.PRICE_LEVELS, as its chunks
  priceLevels \* what parsePriceLevels(env.PRICE_LEVELS) returned

(* ------------------------------------------------- POST /trigger-alerts *)
\* Variant: any non-empty token is let through.
Authorized_NonEmpty(token) == token # NoHeader /\ token # ""

\* The request passes `if (!token || token !== c.env.TRIGGER_TOKEN)`.
Authorized(token) == ~(token = NoHeader \/ token = "") /\ token = TriggerToken

(* ------------------------------------------ runAlertsOnce (send-discord) *)
\* const symbols = opts?.symbols?.length ? opts.symbols... : env.WATCHLIST...
OnceSymbols(override) == IF Len(override) > 0 THEN override ELSE Watchlist

\* const snapshots = await fetchSnapshotsAlpaca(symbols, env): the run goes
\* on to the for loop, or the error leaves runAlertsOnce (nothing catches it).
OnceAfterFetch(ok) == IF ok THEN "loop" ELSE "failed"

\* snap.latestTrade?.p ?? snap.minuteBar?.c ?? null
OnceCurrentPrice(snap) ==
  IF snap.latestTrade # Null THEN snap.latestTrade
  ELSE IF snap.minuteBar # Null THEN snap.minuteBar ELSE Null

\* snap.prevDailyBar?.c ?? null
OncePrevClose(snap) == snap.prevDailyBar

\* Variant: the four conditions are always tried.
OnceCalls_All(rules) == KeyOrder

\* Variant: a snapshot without a price is not skipped.
OnceSkipNote_PriceUnchecked(batch, symbol) ==
  IF symbol \notin DOMAIN batch THEN "no snapshot" ELSE ""

\* The note of a symbol that is skipped, "" when it is evaluated.
OnceSkipNote(batch, symbol) ==
  IF symbol \notin DOMAIN batch THEN "no snapshot"
  ELSE IF OnceCurrentPrice(batch[symbol]) = Null THEN "no current price"
  ELSE ""

\* Variant: only a missing previous close leaves changePct undefined.
OnceHasChangePct_ZeroAllowed(prevClose) == prevClose # Null

\* changePct is defined: prevClose && prevClose > 0
OnceHasChangePct(prevClose) == prevClose # Null /\ prevClose # 0 /\ prevClose > 0

\* priceLevels[symbol] ?? {}
OnceRules(symbol) ==
  IF symbol \in DOMAIN priceLevels THEN priceLevels[symbol]
  ELSE [below |-> Null, above |-> Null]

\* Variant: the threshold of pct_down has lost its sign.
OnceCond_Unsigned(key, rules, cur, prevClose) ==
  CASE key = "price_below" -> rules.below # Null /\ cur <= rules.below
    [] key = "price_above" -> rules.above # Null /\ cur >= rules.above
    [] key = "pct_up"      -> OnceHasChangePct(prevClose)
                              /\ (cur - prevClose) * 100 >= PctThreshold * prevClose
    [] key = "pct_down"    -> OnceHasChangePct(prevClose)
                              /\ (cur - prevClose) * 100 <= PctThreshold * prevClose

\* condPriceBelow, condPriceAbove, condPctUp, condPctDown.  changePct is
\* ((cur - prev) / prev) * 100 with prev > 0, so changePct >= t is
\* (cur - prev) * 100 >= t * prev.
OnceCond(key, rules, cur, prevClose) ==
  CASE key = "price_below" -> rules.below # Null /\ cur <= rules.below
    [] key = "price_above" -> rules.above # Null /\ cur >= rules.above
    [] key = "pct_up"      -> OnceHasChangePct(prevClose)
                              /\ (cur - prevClose) * 100 >= PctThreshold * prevClose
    [] key = "pct_down"    -> OnceHasChangePct(prevClose)
                              /\ (cur - prevClose) * 100 <= (0 - PctThreshold) * prevClose

\* The tryAlert calls made for a symbol, in order: the price ones only when
\* their threshold is a number.
OnceCalls(rules) ==
  SelectSeq(KeyOrder, LAMBDA k : /\ (k = "price_below" => rules.below # Null)
                                 /\ (k = "price_above" => rules.above # Null))

\* (await env.STOCK_STATE.get(stateKey, "json")) ?? {}, then the two ??= {}.
OnceLoad(kv, symbol) ==
  IF symbol \in DOMAIN kv THEN kv[symbol]
  ELSE [lastSentAt |-> EmptyMap, lastCond |-> EmptyMap]

\* Variants of tryAlert with a slip in it, for checking that the properties
\* below depend on the decision rule.
\* wasMet is recorded only once the notification has gone out.
OnceTryAlert_Retry(f, st, key, cond, now, ok) ==
  IF f
  THEN [state |-> st, called |-> cond, sent |-> cond /\ ok, threw |-> cond /\ ~ok]
  ELSE LET prev == Get(st.lastCond, key, FALSE)
           last == Get(st.lastSentAt, key, 0)
           fire == cond /\ ~prev /\ now - last >= CooldownMs
       IN  IF fire /\ ~ok
           THEN [state |-> st, called |-> TRUE, sent |-> FALSE, threw |-> TRUE]
           ELSE [state |-> [lastSentAt |-> IF fire THEN Put(st.lastSentAt, key, now)
                                                   ELSE st.lastSentAt,
                            lastCond   |-> Put(st.lastCond, key, cond /\ (prev \/ fire))],
                 called |-> fire, sent |-> fire, threw |-> FALSE]

\* The cooldown is not checked.
OnceTryAlert_NoCooldown(f, st, key, cond, now, ok) ==
  IF f
  THEN [state |-> st, called |-> cond, sent |-> cond /\ ok, threw |-> cond /\ ~ok]
  ELSE LET prev == Get(st.lastCond, key, FALSE)
           last == Get(st.lastSentAt, key, 0)
           fire == cond /\ ~prev
       IN  IF fire /\ ~ok
           THEN [state |-> st, called |-> TRUE, sent |-> FALSE, threw |-> TRUE]
           ELSE [state |-> [lastSentAt |-> IF fire THEN Put(st.lastSentAt, key, now)
                                                   ELSE st.lastSentAt,
                            lastCond   |-> Put(st.lastCond, key, cond)],
                 called |-> fire, sent |-> fire, threw |-> FALSE]

\* The stored wasMet is not checked (level-triggered).
OnceTryAlert_Level(f, st, key, cond, now, ok) ==
  IF f
  THEN [state |-> st, called |-> cond, sent |-> cond /\ ok, threw |-> cond /\ ~ok]
  ELSE LET prev == Get(st.lastCond, key, FALSE)
           last == Get(st.lastSentAt, key, 0)
           fire == cond /\ now - last >= CooldownMs
       IN  IF fire /\ ~ok
           THEN [state |-> st, called |-> TRUE, sent |-> FALSE, threw |-> TRUE]
           ELSE [state |-> [lastSentAt |-> IF fire THEN Put(st.lastSentAt, key, now)
                                                   ELSE st.lastSentAt,
                            lastCond   |-> Put(st.lastCond, key, cond)],
                 called |-> fire, sent |-> fire, threw |-> FALSE]

\* A missing lastSentAt counts as fired just now.
OnceTryAlert_LastNow(f, st, key, cond, now, ok) ==
  IF f
  THEN [state |-> st, called |-> cond, sent |-> cond /\ ok, threw |-> cond /\ ~ok]
  ELSE LET prev == Get(st.lastCond, key, FALSE)
           last == Get(st.lastSentAt, key, now)
           fire == cond /\ ~prev /\ now - last >= CooldownMs
       IN  IF fire /\ ~ok
           THEN [state |-> st, called |-> TRUE, sent |-> FALSE, threw |-> TRUE]
           ELSE [state |-> [lastSentAt |-> IF fire THEN Put(st.lastSentAt, key, now)
                                                   ELSE st.lastSentAt,
                            lastCond   |-> Put(st.lastCond, key, cond)],
                 called |-> fire, sent |-> fire, threw |-> FALSE]

\* lastSentAt is stamped whenever the condition is met, sent or not.
OnceTryAlert_Stamp(f, st, key, cond, now, ok) ==
  IF f
  THEN [state |-> st, called |-> cond, sent |-> cond /\ ok, threw |-> cond /\ ~ok]
  ELSE LET prev == Get(st.lastCond, key, FALSE)
           last == Get(st.lastSentAt, key, 0)
           fire == cond /\ ~prev /\ now - last >= CooldownMs
       IN  IF fire /\ ~ok
           THEN [state |-> st, called |-> TRUE, sent |-> FALSE, threw |-> TRUE]
           ELSE [state |-> [lastSentAt |-> IF cond THEN Put(st.lastSentAt, key, now)
                                                   ELSE st.lastSentAt,
                            lastCond   |-> Put(st.lastCond, key, cond)],
                 called |-> fire, sent |-> fire, threw |-> FALSE]

\* The force branch still checks the stored wasMet.
OnceTryAlert_ForceEdge(f, st, key, cond, now, ok) ==
  IF f
  THEN LET go == cond /\ ~Get(st.lastCond, key, FALSE)
       IN [state |-> st, called |-> go, sent |-> go /\ ok, threw |-> go /\ ~ok]
  ELSE LET prev == Get(st.lastCond, key, FALSE)
           last == Get(st.lastSentAt, key, 0)
           fire == cond /\ ~prev /\ now - last >= CooldownMs
       IN  IF fire /\ ~ok
           THEN [state |-> st, called |-> TRUE, sent |-> FALSE, threw |-> TRUE]
           ELSE [state |-> [lastSentAt |-> IF fire THEN Put(st.lastSentAt, key, now)
                                                   ELSE st.lastSentAt,
                            lastCond   |-> Put(st.lastCond, key, cond)],
                 called |-> fire, sent |-> fire, threw |-> FALSE]

\* One call of tryAlert.  ok is the outcome of sendDiscord, should it be
\* called.  Result: the state after the call, whether sendDiscord was called,
\* whether a notification was delivered, whether the call threw.
OnceTryAlert(f, st, key, cond, now, ok) ==
  IF f
  THEN [state |-> st, called |-> cond, sent |-> cond /\ ok, threw |-> cond /\ ~ok]
  ELSE LET prev == Get(st.lastCond, key, FALSE)
           last == Get(st.lastSentAt, key, 0)
           fire == cond /\ ~prev /\ now - last >= CooldownMs
       IN  IF fire /\ ~ok
           THEN [state |-> st, called |-> TRUE, sent |-> FALSE, threw |-> TRUE]
           ELSE [state |-> [lastSentAt |-> IF fire THEN Put(st.lastSentAt, key, now)
                                                   ELSE st.lastSentAt,
                            lastCond   |-> Put(st.lastCond, key, cond)],
                 called |-> fire, sent |-> fire, threw |-> FALSE]

\* Variant: the state is written in force mode too.
OnceWrites_Always(f) == TRUE

\* if (!opts?.force) await env.STOCK_STATE.put(stateKey, JSON.stringify(state))
OnceWrites(f) == ~f

\* Variant: the key of the record does not depend on the symbol.
OncePut_OneKey(kv, symbol, st) == Put(kv, "S1", st)

\* Variant: a record that exists is not overwritten.
OncePut_KeepExisting(kv, symbol, st) ==
  IF symbol \in DOMAIN kv THEN kv ELSE Put(kv, symbol, st)

\* env.STOCK_STATE.put(stateKey, ...): the record of the symbol is replaced.
OncePut(kv, symbol, st) == Put(kv, symbol, st)

\* Variant: the catch block saves the times of the notifications sent.
OnceCatch_SavesSentAt(kv, symbol, st) ==
  Put(kv, symbol, [lastSentAt |-> st.lastSentAt,
                   lastCond   |-> OnceLoad(kv, symbol).lastCond])

\* Variant: the catch block saves the state it has.
OnceCatch_Saves(kv, symbol, st) == Put(kv, symbol, st)

\* The store after the catch block (console.error, note "error", push): the
\* state in memory is dropped, nothing is written.
OnceCatch(kv, symbol, st) == kv

(* ------------------------------------------------------ runCron (index) *)
\* const symbols = (env.WATCHLIST ?? "AAPL,TSLA").split(",")...
CronSymbols == Watchlist

\* Variant: a failed fetch is taken for an empty batch.
CronAfterFetch_Swallowed(ok) == "loop"

\* const snapshots = await fetchSnapshotsAlpaca(symbols, env) in runCron.
CronAfterFetch(ok) == IF ok THEN "loop" ELSE "failed"

\* snap.latestTrade?.p ?? snap.minuteBar?.c ?? null
CronCurrentPrice(snap) ==
  IF snap.latestTrade # Null THEN snap.latestTrade
  ELSE IF snap.minuteBar # Null THEN snap.minuteBar ELSE Null

\* snap.prevDailyBar?.c ?? null
CronPrevClose(snap) == snap.prevDailyBar

\* if (!snap) continue; ... if (currentPrice == null) continue;
CronSkips(batch, symbol) ==
  IF symbol \notin DOMAIN batch THEN TRUE
  ELSE CronCurrentPrice(batch[symbol]) = Null

\* changePct is defined: prevClose && prevClose > 0
CronHasChangePct(prevClose) == prevClose # Null /\ prevClose # 0 /\ prevClose > 0

\* priceLevels[symbol] ?? {}
CronRules(symbol) ==
  IF symbol \in DOMAIN priceLevels THEN priceLevels[symbol]
  ELSE [below |-> Null, above |-> Null]

\* condPriceBelow, condPriceAbove, condPctUp, condPctDown of runCron.
CronCond(key, rules, cur, prevClose) ==
  CASE key = "price_below" -> rules.below # Null /\ cur <= rules.below
    [] key = "price_above" -> rules.above # Null /\ cur >= rules.above
    [] key = "pct_up"      -> CronHasChangePct(prevClose)
                              /\ (cur - prevClose) * 100 >= PctThreshold * prevClose
    [] key = "pct_down"    -> CronHasChangePct(prevClose)
                              /\ (cur - prevClose) * 100 <= (0 - PctThreshold) * prevClose

\* The tryAlert calls runCron makes for a symbol, in order.
CronCalls(rules) ==
  SelectSeq(KeyOrder, LAMBDA k : /\ (k = "price_below" => rules.below # Null)
                                 /\ (k = "price_above" => rules.above # Null))

\* (await env.STOCK_STATE.get(stateKey, "json")) ?? {}, then the two ??= {}.
CronLoad(kv, symbol) ==
  IF symbol \in DOMAIN kv THEN kv[symbol]
  ELSE [lastSentAt |-> EmptyMap, lastCond |-> EmptyMap]

\* Variant: the cooldown must be exceeded, not just reached.
CronTryAlert_Strict(st, key, cond, now, ok) ==
  LET prev == Get(st.lastCond, key, FALSE)
      last == Get(st.lastSentAt, key, 0)
      fire == cond /\ ~prev /\ now - last > CooldownMs
  IN  IF fire /\ ~ok
      THEN [state |-> st, called |-> TRUE, sent |-> FALSE, threw |-> TRUE]
      ELSE [state |-> [lastSentAt |-> IF fire THEN Put(st.lastSentAt, key, now)
                                              ELSE st.lastSentAt,
                       lastCond   |-> Put(st.lastCond, key, cond)],
            called |-> fire, sent |-> fire, threw |-> FALSE]

\* One call of runCron's tryAlert (it has no force branch).
CronTryAlert(st, key, cond, now, ok) ==
  LET prev == Get(st.lastCond, key, FALSE)
      last == Get(st.lastSentAt, key, 0)
      fire == cond /\ ~prev /\ now - last >= CooldownMs
  IN  IF fire /\ ~ok
      THEN [state |-> st, called |-> TRUE, sent |-> FALSE, threw |-> TRUE]
      ELSE [state |-> [lastSentAt |-> IF fire THEN Put(st.lastSentAt, key, now)
                                              ELSE st.lastSentAt,
                       lastCond   |-> Put(st.lastCond, key, cond)],
            called |-> fire, sent |-> fire, threw |-> FALSE]

\* await env.STOCK_STATE.put(stateKey, JSON.stringify(state))
CronPut(kv, symbol, st) == Put(kv, symbol, st)

\* The store after the catch block (console.error): nothing is written.
CronCatch(kv, symbol, st) == kv

(* ----------------------------------------------------------------- state *)
VARIABLES
  store,      \* STOCK_STATE: symbol -> persisted AlertState (absent: no record)
  clock,      \* Date.now()
  evals,      \* number of symbol evaluations of the cycles started so far
  pc,         \* per run: "idle", "loop", "alert", "put", "done", "failed"
  force,      \* opts.force of the run
  symbols,    \* the run's symbol list
  snapshots,  \* the batch returned by fetchSnapshotsAlpaca
  idx,        \* position of the for loop in symbols
  state,      \* the AlertState being evaluated (in memory)
  step,       \* position in the tryAlert calls of the symbol
  sentKeys,   \* keys notified for the current symbol
  details,    \* details of runAlertsOnce
  sent,       \* sent counter of runAlertsOnce
  \* history variables, read by the properties only
  didRead,    \* the run has read the current symbol's record
  notifs,     \* (symbol, key) pairs notified in the run, in order
  trace,      \* per finished symbol of the run: outcome, read or not, keys sent
  store0,     \* the store as it was when the run started
  pending,    \* keys whose rising edge was suppressed in the current evaluation
  ev,         \* the tryAlert call or put just made, NoEv after any other step
  lastNotif,  \* (symbol, key) -> time of the last normal-mode notification
  lastKept,   \* same, among the notifications whose evaluation was persisted
  lastLost,   \* same, when the write of that evaluation failed and no later
              \* notification of the pair has been persisted
  edgeSeen,   \* (symbol, key) -> a suppressed rising edge, not evaluated false since
  edgeKept,   \* same, among the edges whose evaluation was persisted
  shadow      \* runCron's steps replayed on the inputs of a normal on-demand run

progVars  == <<store, clock, evals, pc, force, symbols, snapshots, idx, state, step,
               sentKeys, details, sent, ruleString, priceLevels>>
histVars  == <<didRead, notifs, trace, store0, pending, ev, lastNotif, lastKept, lastLost,
               edgeSeen, edgeKept, shadow>>
vars == <<progVars, histVars>>

EmptyState == [lastSentAt |-> EmptyMap, lastCond |-> EmptyMap]
NoEv == [kind |-> "none"]
NoShadow == [on |-> FALSE]
\* The persisted record of a symbol, or a value no record equals.
Rec(kv, symbol) == IF symbol \in DOMAIN kv THEN kv[symbol] ELSE [absent |-> TRUE]

\* The runs and the observations when the worker starts: no run under way.
InitRuns ==
  /\ clock = StartTime
  /\ evals = 0
  /\ pc = [p \in Procs |-> "idle"]
  /\ force = [p \in Procs |-> FALSE]
  /\ symbols = [p \in Procs |-> <<>>]
  /\ snapshots = [p \in Procs |-> EmptyMap]
  /\ idx = [p \in Procs |-> 0]
  /\ state = [p \in Procs |-> EmptyState]
  /\ step = [p \in Procs |-> 0]
  /\ sentKeys = [p \in Procs |-> <<>>]
  /\ details = <<>>
  /\ sent = 0
  /\ didRead = [p \in Procs |-> FALSE]
  /\ notifs = [p \in Procs |-> <<>>]
  /\ trace = [p \in Procs |-> <<>>]
  /\ store0 = [p \in Procs |-> EmptyMap]
  /\ pending = [p \in Procs |-> {}]
  /\ ev = NoEv
  /\ lastNotif = [s \in Symbols |-> [k \in Keys |-> Null]]
  /\ lastKept = [s \in Symbols |-> [k \in Keys |-> Null]]
  /\ lastLost = [s \in Symbols |-> [k \in Keys |-> Null]]
  /\ edgeSeen = [s \in Symbols |-> [k \in Keys |-> FALSE]]
  /\ edgeKept = [s \in Symbols |-> [k \in Keys |-> FALSE]]
  /\ shadow = NoShadow

\* The worker starts on an empty STOCK_STATE.
Init ==
  /\ store = EmptyMap
  /\ ruleString = PriceLevelsEnv
  /\ priceLevels = PriceLevels
  /\ InitRuns

(* ------------------------------------------------------- history updates *)
\* Variant: the detail does not list the keys notified.
Detail_NoKeys(symbol, keys, note, batch) ==
  [symbol |-> symbol, sent |-> <<>>, note |-> note,
   currentPrice |-> IF symbol \in DOMAIN batch THEN OnceCurrentPrice(batch[symbol])
                    ELSE Null,
   prevClose |-> IF symbol \in DOMAIN batch THEN OncePrevClose(batch[symbol]) ELSE Null]

\* An entry of details: symbol, sent (the keys notified), note, and the
\* price fields (changePct and rules are left out: they follow from these).
Detail(symbol, keys, note, batch) ==
  [symbol |-> symbol, sent |-> keys, note |-> note,
   currentPrice |-> IF symbol \in DOMAIN batch THEN OnceCurrentPrice(batch[symbol])
                    ELSE Null,
   prevClose |-> IF symbol \in DOMAIN batch THEN OncePrevClose(batch[symbol]) ELSE Null]

\* return { ok: true, symbols: symbols.length, sent, details }
Summary ==
  [ok |-> TRUE, symbols |-> Len(symbols["once"]), sent |-> sent, details |-> details]

\* The loop of run p leaves the current symbol with the given outcome.
EndSymbol(p, outcome, keys) ==
  /\ idx' = [idx EXCEPT ![p] = @ + 1]
  /\ pc' = [pc EXCEPT ![p] = "loop"]
  /\ state' = [state EXCEPT ![p] = EmptyState]
  /\ step' = [step EXCEPT ![p] = 0]
  /\ sentKeys' = [sentKeys EXCEPT ![p] = <<>>]
  /\ didRead' = [didRead EXCEPT ![p] = FALSE]
  /\ pending' = [pending EXCEPT ![p] = {}]
  /\ trace' = [trace EXCEPT ![p] = Append(@, [symbol |-> symbols[p][idx[p]],
                                              outcome |-> outcome,
                                              read |-> didRead[p],
                                              sent |-> keys])]

\* A rising edge met by a normal-mode tryAlert before the cooldown has elapsed.
Suppressed(f, st, key, cond, now) ==
  /\ ~f /\ cond
  /\ ~Get(st.lastCond, key, FALSE)
  /\ now - Get(st.lastSentAt, key, 0) < CooldownMs

\* The history of one tryAlert call of run p with result r.
AlertHist(p, symbol, key, cond, r, ok) ==
  /\ ev' = [kind |-> "alert", proc |-> p, symbol |-> symbol, key |-> key,
            force |-> force[p], cond |-> cond, now |-> clock, ok |-> ok,
            prev |-> Get(OnceLoad(store, symbol).lastCond, key, FALSE),
            last |-> Get(OnceLoad(store, symbol).lastSentAt, key, 0),
            hadLast |-> key \in DOMAIN state[p].lastSentAt,
            called |-> r.called, sent |-> r.sent, threw |-> r.threw,
            before |-> state[p], after |-> r.state,
            prevNotif |-> lastNotif[symbol][key], prevKept |-> lastKept[symbol][key],
            prevLost |-> lastLost[symbol][key],
            seen |-> edgeSeen[symbol][key], kept |-> edgeKept[symbol][key]]
  /\ notifs' = [notifs EXCEPT ![p] = IF r.sent THEN Append(@, <<symbol, key>>) ELSE @]
  /\ lastNotif' = IF r.sent /\ ~force[p]
                  THEN [lastNotif EXCEPT ![symbol][key] = clock] ELSE lastNotif
  /\ edgeSeen' = IF force[p] THEN edgeSeen
                 ELSE IF ~cond THEN [edgeSeen EXCEPT ![symbol][key] = FALSE]
                 ELSE IF Suppressed(force[p], state[p], key, cond, clock)
                      THEN [edgeSeen EXCEPT ![symbol][key] = TRUE]
                 ELSE edgeSeen
  /\ edgeKept' = IF ~force[p] /\ ~cond
                 THEN [edgeKept EXCEPT ![symbol][key] = FALSE] ELSE edgeKept
  /\ lastLost' = lastLost

\* The history of a put of run p: ok is the outcome of the write.
PutHist(p, symbol, ok) ==
  /\ ev' = [kind |-> "put", proc |-> p, symbol |-> symbol, ok |-> ok,
            wrote |-> state[p], over |-> Rec(store, symbol)]
  /\ lastKept' = IF ok
                 THEN [lastKept EXCEPT ![symbol] =
                         [k \in Keys |-> IF k \in Range(sentKeys[p])
                                         THEN lastNotif[symbol][k] ELSE @[k]]]
                 ELSE lastKept
  /\ lastLost' = [lastLost EXCEPT ![symbol] =
                    [k \in Keys |-> IF k \notin Range(sentKeys[p]) THEN @[k]
                                    ELSE IF ok THEN Null ELSE lastNotif[symbol][k]]]
  /\ edgeKept' = IF ok
                 THEN [edgeKept EXCEPT ![symbol] =
                         [k \in Keys |-> IF k \in pending[p] THEN TRUE ELSE @[k]]]
                 ELSE edgeKept

\* runCron replayed beside a normal on-demand run without symbol override:
\* it is given the same batch, clock readings and outcomes, keeps its own
\* store and state, and sync records whether its control flow went the same way.
ShStart(f, override) ==
  IF ~f /\ Len(override) = 0
  THEN [on |-> TRUE, sync |-> CronSymbols = OnceSymbols(override), kv |-> store,
        state |-> EmptyState, notifs |-> <<>>]
  ELSE NoShadow
Live(sh) == sh.on /\ sh.sync
ShLoop(sh, i, onceEnds) ==
  IF ~Live(sh) THEN sh ELSE [sh EXCEPT !.sync = ((i > Len(CronSymbols)) = onceEnds)]
ShSkip(sh, batch, i, onceSkips) ==
  IF ~Live(sh) THEN sh
  ELSE [sh EXCEPT !.sync = (CronSkips(batch, CronSymbols[i]) = onceSkips)]
ShRead(sh, i) ==
  IF ~Live(sh) THEN sh ELSE [sh EXCEPT !.state = CronLoad(sh.kv, CronSymbols[i])]
ShAlert(sh, batch, i, st, now, ok, onceThrew, onceLast) ==
  IF ~Live(sh) THEN sh
  ELSE LET symbol == CronSymbols[i]
           rules  == CronRules(symbol)
           calls  == CronCalls(rules)
       IN  IF st > Len(calls) THEN [sh EXCEPT !.sync = FALSE]
           ELSE LET key == calls[st]
                    r == CronTryAlert(sh.state, key,
                           CronCond(key, rules, CronCurrentPrice(batch[symbol]),
                                    CronPrevClose(batch[symbol])), now, ok)
                IN [sh EXCEPT !.sync = /\ r.threw = onceThrew
                                       /\ (r.threw \/ ((st = Len(calls)) = onceLast)),
                              !.kv = IF r.threw THEN CronCatch(@, symbol, sh.state) ELSE @,
                              !.state = IF r.threw THEN EmptyState ELSE r.state,
                              !.notifs = IF r.sent THEN Append(@, <<symbol, key>>) ELSE @]
ShPut(sh, i, ok) ==
  IF ~Live(sh) THEN sh
  ELSE [sh EXCEPT !.kv = IF ok THEN CronPut(@, CronSymbols[i], sh.state)
                               ELSE CronCatch(@, CronSymbols[i], sh.state),
                  !.state = EmptyState]

(* --------------------------------------------- actions of runAlertsOnce *)
\* POST /trigger-alerts -> runAlertsOnce(env, {force, symbols}) up to the
\* for loop: the token is accepted, the symbol list resolved and the batch
\* fetched.  excl: the
\* run starts only when no scheduled run is under way; modes: the values of
\* opts.force the requests come with; fetches: the outcomes of the fetch.
OnceStart(excl, modes, fetches, known, budget) ==
  /\ pc["once"] = "idle"
  /\ excl => pc["cron"] = "idle"
  /\ \E t \in Tokens, f \in modes, o \in Overrides, ok \in fetches :
       \E b \in IF ok THEN Batches(OnceSymbols(o), known) ELSE {EmptyMap} :
         /\ Authorized(t)
         /\ evals + Cost(b) <= budget
         /\ evals' = evals + Cost(b)
         /\ force' = [force EXCEPT !["once"] = f]
         /\ symbols' = [symbols EXCEPT !["once"] = OnceSymbols(o)]
         /\ snapshots' = [snapshots EXCEPT !["once"] = b]
         /\ shadow' = IF ok THEN ShStart(f, o) ELSE NoShadow
         /\ pc' = [pc EXCEPT !["once"] = OnceAfterFetch(ok)]
         /\ ev' = [kind |-> "start", proc |-> "once", fetched |-> ok, token |-> t]
  /\ idx' = [idx EXCEPT !["once"] = 1]
  /\ details' = <<>>
  /\ sent' = 0
  /\ store0' = [store0 EXCEPT !["once"] = store]
  /\ UNCHANGED <<store, clock, state, step, sentKeys, didRead, notifs, trace, pending,
                 lastNotif, lastKept, edgeSeen, edgeKept>>
  /\ UNCHANGED <<ruleString, priceLevels, lastLost>>

\* The loop head with a symbol that has no snapshot or no current price:
\* the detail gets its note and the loop continues.
OnceSkip ==
  /\ pc["once"] = "loop"
  /\ idx["once"] <= Len(symbols["once"])
  /\ LET symbol == symbols["once"][idx["once"]]
         note == OnceSkipNote(snapshots["once"], symbol)
     IN /\ note # ""
        /\ details' = Append(details, Detail(symbol, <<>>, note, snapshots["once"]))
        /\ EndSymbol("once", "skip", <<>>)
        /\ shadow' = ShSkip(ShLoop(shadow, idx["once"], FALSE),
                            snapshots["once"], idx["once"], TRUE)
  /\ ev' = NoEv
  /\ UNCHANGED <<store, clock, evals, force, symbols, snapshots, sent, notifs, store0,
                 lastNotif, lastKept, edgeSeen, edgeKept>>
  /\ UNCHANGED <<ruleString, priceLevels, lastLost>>

\* The loop head with a symbol that has a current price, up to the first
\* tryAlert: STOCK_STATE.get gives the stored record, or null (an empty state).
OnceRead ==
  /\ pc["once"] = "loop"
  /\ idx["once"] <= Len(symbols["once"])
  /\ OnceSkipNote(snapshots["once"], symbols["once"][idx["once"]]) = ""
  /\ state' = [state EXCEPT !["once"] = OnceLoad(store, symbols["once"][idx["once"]])]
  /\ step' = [step EXCEPT !["once"] = 1]
  /\ pc' = [pc EXCEPT !["once"] = "alert"]
  /\ didRead' = [didRead EXCEPT !["once"] = TRUE]
  /\ shadow' = ShRead(ShSkip(ShLoop(shadow, idx["once"], FALSE),
                             snapshots["once"], idx["once"], FALSE), idx["once"])
  /\ ev' = NoEv
  /\ UNCHANGED <<store, clock, evals, force, symbols, snapshots, idx, sentKeys, details,
                 sent, notifs, trace, store0, pending, lastNotif, lastKept, edgeSeen,
                 edgeKept>>
  /\ UNCHANGED <<ruleString, priceLevels, lastLost>>

\* The next tryAlert call of the symbol.  If sendDiscord throws, the catch
\* block notes "error" and the loop continues; after the last call a force
\* run pushes the detail, a normal run goes on to await STOCK_STATE.put.
OnceAlert ==
  /\ pc["once"] = "alert"
  /\ \E ok \in BOOLEAN :
       LET symbol == symbols["once"][idx["once"]]
           snap   == snapshots["once"][symbol]
           rules  == OnceRules(symbol)
           calls  == OnceCalls(rules)
           key    == calls[step["once"]]
           cond   == OnceCond(key, rules, OnceCurrentPrice(snap), OncePrevClose(snap))
           r      == OnceTryAlert(force["once"], state["once"], key, cond, clock, ok)
           last   == step["once"] = Len(calls)
           keys   == IF r.sent THEN Append(sentKeys["once"], key) ELSE sentKeys["once"]
       IN /\ ~ok => r.called
          /\ AlertHist("once", symbol, key, cond, r, ok)
          /\ shadow' = ShAlert(shadow, snapshots["once"], idx["once"], step["once"],
                               clock, ok, r.threw, last)
          /\ sent' = IF r.sent THEN sent + 1 ELSE sent
          /\ store' = IF r.threw THEN OnceCatch(store, symbol, state["once"]) ELSE store
          /\ IF r.threw
             THEN /\ details' = Append(details, Detail(symbol, keys, "error",
                                                       snapshots["once"]))
                  /\ EndSymbol("once", "error", keys)
             ELSE IF last /\ ~OnceWrites(force["once"])
             THEN /\ details' = Append(details, Detail(symbol, keys, "",
                                                       snapshots["once"]))
                  /\ EndSymbol("once", "ok", keys)
             ELSE /\ state' = [state EXCEPT !["once"] = r.state]
                  /\ sentKeys' = [sentKeys EXCEPT !["once"] = keys]
                  /\ step' = [step EXCEPT !["once"] = IF last THEN @ ELSE @ + 1]
                  /\ pc' = [pc EXCEPT !["once"] = IF last THEN "put" ELSE "alert"]
                  /\ pending' = [pending EXCEPT !["once"] =
                       IF Suppressed(force["once"], state["once"], key, cond, clock)
                       THEN @ \cup {key} ELSE @]
                  /\ UNCHANGED <<idx, details, didRead, trace>>
  /\ UNCHANGED <<clock, evals, force, symbols, snapshots, store0, lastKept>>
  /\ UNCHANGED <<ruleString, priceLevels>>

\* STOCK_STATE.put resolves (the detail is pushed), or throws (catch).
OncePutStep ==
  /\ pc["once"] = "put"
  /\ \E ok \in BOOLEAN :
       LET symbol == symbols["once"][idx["once"]]
       IN /\ store' = IF ok THEN OncePut(store, symbol, state["once"])
                       ELSE OnceCatch(store, symbol, state["once"])
          /\ details' = Append(details, Detail(symbol, sentKeys["once"],
                                               IF ok THEN "" ELSE "error",
                                               snapshots["once"]))
          /\ PutHist("once", symbol, ok)
          /\ shadow' = ShPut(shadow, idx["once"], ok)
          /\ EndSymbol("once", IF ok THEN "ok" ELSE "error", sentKeys["once"])
  /\ UNCHANGED <<clock, evals, force, symbols, snapshots, sent, notifs, store0,
                 lastNotif, edgeSeen>>
  /\ UNCHANGED <<ruleString, priceLevels>>

\* The loop is over: return { ok, symbols, sent, details }.
OnceFinish ==
  /\ pc["once"] = "loop"
  /\ idx["once"] > Len(symbols["once"])
  /\ pc' = [pc EXCEPT !["once"] = "done"]
  /\ shadow' = ShLoop(shadow, idx["once"], TRUE)
  /\ ev' = NoEv
  /\ UNCHANGED <<store, clock, evals, force, symbols, snapshots, idx, state, step,
                 sentKeys, details, sent, didRead, notifs, trace, store0, pending,
                 lastNotif, lastKept, edgeSeen, edgeKept>>
  /\ UNCHANGED <<ruleString, priceLevels, lastLost>>

\* The handler has answered (with the summary, or with the error of a failed
\* fetch): the call's frame is gone.
OnceReturn ==
  /\ pc["once"] \in {"done", "failed"}
  /\ pc' = [pc EXCEPT !["once"] = "idle"]
  /\ force' = [force EXCEPT !["once"] = FALSE]
  /\ symbols' = [symbols EXCEPT !["once"] = <<>>]
  /\ snapshots' = [snapshots EXCEPT !["once"] = EmptyMap]
  /\ idx' = [idx EXCEPT !["once"] = 0]
  /\ details' = <<>>
  /\ sent' = 0
  /\ notifs' = [notifs EXCEPT !["once"] = <<>>]
  /\ trace' = [trace EXCEPT !["once"] = <<>>]
  /\ store0' = [store0 EXCEPT !["once"] = EmptyMap]
  /\ shadow' = NoShadow
  /\ ev' = NoEv
  /\ UNCHANGED <<store, clock, evals, state, step, sentKeys, didRead, pending,
                 lastNotif, lastKept, edgeSeen, edgeKept>>
  /\ UNCHANGED <<ruleString, priceLevels, lastLost>>

\* POST /trigger-alerts with a token that is not accepted: 401 Unauthorized.
\* (Taken when no run is under way: the step does not depend on the runs.)
TriggerUnauthorized ==
  /\ \A p \in Procs : pc[p] = "idle"
  /\ \E t \in Tokens :
       /\ ~Authorized(t)
       /\ ev' = [kind |-> "reject", token |-> t, status |-> 401]
  /\ UNCHANGED <<progVars, didRead, notifs, trace, store0, pending, lastNotif,
                 lastKept, lastLost, edgeSeen, edgeKept, shadow>>

(* --------------------------------------------------- actions of runCron *)
\* scheduled() -> runCron(env) up to the for loop.  excl: the run starts
\* only when no on-demand run is under way; fetches: the outcomes of the fetch.
CronStart(excl, fetches, known, budget) ==
  /\ pc["cron"] = "idle"
  /\ excl => pc["once"] = "idle"
  /\ \E ok \in fetches :
       \E b \in IF ok THEN Batches(CronSymbols, known) ELSE {EmptyMap} :
         /\ evals + Cost(b) <= budget
         /\ evals' = evals + Cost(b)
         /\ snapshots' = [snapshots EXCEPT !["cron"] = b]
         /\ pc' = [pc EXCEPT !["cron"] = CronAfterFetch(ok)]
         /\ ev' = [kind |-> "start", proc |-> "cron", fetched |-> ok]
  /\ symbols' = [symbols EXCEPT !["cron"] = CronSymbols]
  /\ idx' = [idx EXCEPT !["cron"] = 1]
  /\ store0' = [store0 EXCEPT !["cron"] = store]
  /\ UNCHANGED <<store, clock, force, state, step, sentKeys, details, sent, didRead,
                 notifs, trace, pending, lastNotif, lastKept, edgeSeen, edgeKept,
                 shadow>>
  /\ UNCHANGED <<ruleString, priceLevels, lastLost>>

\* if (!snap) continue; if (currentPrice == null) continue;
CronSkip ==
  /\ pc["cron"] = "loop"
  /\ idx["cron"] <= Len(symbols["cron"])
  /\ CronSkips(snapshots["cron"], symbols["cron"][idx["cron"]])
  /\ EndSymbol("cron", "skip", <<>>)
  /\ ev' = NoEv
  /\ UNCHANGED <<store, clock, evals, force, symbols, snapshots, details, sent, notifs,
                 store0, lastNotif, lastKept, edgeSeen, edgeKept, shadow>>
  /\ UNCHANGED <<ruleString, priceLevels, lastLost>>

\* The loop head with a symbol that has a current price, up to the first
\* tryAlert: STOCK_STATE.get gives the stored record, or null (an empty state).
CronRead ==
  /\ pc["cron"] = "loop"
  /\ idx["cron"] <= Len(symbols["cron"])
  /\ ~CronSkips(snapshots["cron"], symbols["cron"][idx["cron"]])
  /\ state' = [state EXCEPT !["cron"] = CronLoad(store, symbols["cron"][idx["cron"]])]
  /\ step' = [step EXCEPT !["cron"] = 1]
  /\ pc' = [pc EXCEPT !["cron"] = "alert"]
  /\ didRead' = [didRead EXCEPT !["cron"] = TRUE]
  /\ ev' = NoEv
  /\ UNCHANGED <<store, clock, evals, force, symbols, snapshots, idx, sentKeys, details,
                 sent, notifs, trace, store0, pending, lastNotif, lastKept, edgeSeen,
                 edgeKept, shadow>>
  /\ UNCHANGED <<ruleString, priceLevels, lastLost>>

\* The next tryAlert call of the symbol; a throw is caught and logged.
CronAlert ==
  /\ pc["cron"] = "alert"
  /\ \E ok \in BOOLEAN :
       LET symbol == symbols["cron"][idx["cron"]]
           snap   == snapshots["cron"][symbol]
           rules  == CronRules(symbol)
           calls  == CronCalls(rules)
           key    == calls[step["cron"]]
           cond   == CronCond(key, rules, CronCurrentPrice(snap), CronPrevClose(snap))
           r      == CronTryAlert(state["cron"], key, cond, clock, ok)
           last   == step["cron"] = Len(calls)
           keys   == IF r.sent THEN Append(sentKeys["cron"], key) ELSE sentKeys["cron"]
       IN /\ ~ok => r.called
          /\ AlertHist("cron", symbol, key, cond, r, ok)
          /\ store' = IF r.threw THEN CronCatch(store, symbol, state["cron"]) ELSE store
          /\ IF r.threw
             THEN EndSymbol("cron", "error", keys)
             ELSE /\ state' = [state EXCEPT !["cron"] = r.state]
                  /\ sentKeys' = [sentKeys EXCEPT !["cron"] = keys]
                  /\ step' = [step EXCEPT !["cron"] = IF last THEN @ ELSE @ + 1]
                  /\ pc' = [pc EXCEPT !["cron"] = IF last THEN "put" ELSE "alert"]
                  /\ pending' = [pending EXCEPT !["cron"] =
                       IF Suppressed(FALSE, state["cron"], key, cond, clock)
                       THEN @ \cup {key} ELSE @]
                  /\ UNCHANGED <<idx, didRead, trace>>
  /\ UNCHANGED <<clock, evals, force, symbols, snapshots, details, sent, store0,
                 lastKept, shadow>>
  /\ UNCHANGED <<ruleString, priceLevels>>

\* STOCK_STATE.put resolves, or throws (caught and logged).
CronPutStep ==
  /\ pc["cron"] = "put"
  /\ \E ok \in BOOLEAN :
       LET symbol == symbols["cron"][idx["cron"]]
       IN /\ store' = IF ok THEN CronPut(store, symbol, state["cron"])
                       ELSE CronCatch(store, symbol, state["cron"])
          /\ PutHist("cron", symbol, ok)
          /\ EndSymbol("cron", IF ok THEN "ok" ELSE "error", sentKeys["cron"])
  /\ UNCHANGED <<clock, evals, force, symbols, snapshots, details, sent, notifs, store0,
                 lastNotif, edgeSeen, shadow>>
  /\ UNCHANGED <<ruleString, priceLevels>>

\* The loop is over.
CronFinish ==
  /\ pc["cron"] = "loop"
  /\ idx["cron"] > Len(symbols["cron"])
  /\ pc' = [pc EXCEPT !["cron"] = "done"]
  /\ ev' = NoEv
  /\ UNCHANGED <<store, clock, evals, force, symbols, snapshots, idx, state, step,
                 sentKeys, details, sent, didRead, notifs, trace, store0, pending,
                 lastNotif, lastKept, edgeSeen, edgeKept, shadow>>
  /\ UNCHANGED <<ruleString, priceLevels, lastLost>>

\* runCron's promise has resolved: the call's frame is gone.
CronReturn ==
  /\ pc["cron"] \in {"done", "failed"}
  /\ pc' = [pc EXCEPT !["cron"] = "idle"]
  /\ symbols' = [symbols EXCEPT !["cron"] = <<>>]
  /\ snapshots' = [snapshots EXCEPT !["cron"] = EmptyMap]
  /\ idx' = [idx EXCEPT !["cron"] = 0]
  /\ notifs' = [notifs EXCEPT !["cron"] = <<>>]
  /\ trace' = [trace EXCEPT !["cron"] = <<>>]
  /\ store0' = [store0 EXCEPT !["cron"] = EmptyMap]
  /\ ev' = NoEv
  /\ UNCHANGED <<store, clock, evals, force, state, step, sentKeys, details, sent,
                 didRead, pending, lastNotif, lastKept, edgeSeen, edgeKept, shadow>>
  /\ UNCHANGED <<ruleString, priceLevels, lastLost>>

(* ------------------------------------------------------------ the system *)
\* Time passes: between cycles and between the symbols of a cycle (the
\* evaluation of one symbol takes less than a tick).
Tick ==
  /\ clock < MaxTime
  /\ \A p \in Procs : pc[p] \in {"idle", "loop"}
  /\ clock' = clock + 1
  /\ ev' = NoEv
  /\ UNCHANGED <<store, evals, pc, force, symbols, snapshots, idx, state, step,
                 sentKeys, details, sent, didRead, notifs, trace, store0, pending,
                 lastNotif, lastKept, edgeSeen, edgeKept, shadow>>
  /\ UNCHANGED <<ruleString, priceLevels, lastLost>>

Steps ==
  \/ OnceSkip \/ OnceRead \/ OnceAlert \/ OncePutStep
  \/ OnceFinish \/ OnceReturn
  \/ CronSkip \/ CronRead \/ CronAlert \/ CronPutStep
  \/ CronFinish \/ CronReturn
  \/ Tick

\* Cycles one after the other: a run starts only when none is under way; the
\* snapshot fetch of a cycle may fail, on-demand requests may come with a
\* token that is not accepted.
Next ==
  \/ OnceStart(TRUE, BOOLEAN, BOOLEAN, [s \in Symbols |-> SnapChoices], MaxEvals)
  \/ CronStart(TRUE, BOOLEAN, [s \in Symbols |-> SnapChoices], MaxEvals)
  \/ TriggerUnauthorized
  \/ Steps
Spec == Init /\ [][Next]_vars

\* Cycles one after the other in which only S1 has snapshots: the long
\* histories of one symbol (every fetch succeeds).
NextLong ==
  \/ OnceStart(TRUE, BOOLEAN, {TRUE}, [s \in {"S1"} |-> SnapChoices], MaxLongEvals)
  \/ CronStart(TRUE, {TRUE}, [s \in {"S1"} |-> SnapChoices], MaxLongEvals)
  \/ Steps
SpecLong == Init /\ [][NextLong]_vars

\* STOCK_STATE when the worker starts with records of an earlier deployment,
\* whose PRICE_LEVELS had a below threshold for S2: the record of S2 has
\* price_below entries, and the present rules have no below threshold for S2.
LegacyStore ==
  Put(EmptyMap, "S2",
      [lastSentAt |-> Put(EmptyMap, "price_below", StartTime - 1),
       lastCond   |-> Put(EmptyMap, "price_below", TRUE)])
InitLegacy ==
  /\ store = LegacyStore
  /\ ruleString = PriceLevelsEnv
  /\ priceLevels = PriceLevels
  /\ InitRuns
\* Cycles one after the other on that store, in which only S2 has snapshots.
NextLegacy ==
  \/ OnceStart(TRUE, BOOLEAN, {TRUE}, [s \in {"S2"} |-> SnapChoices], MaxEvals)
  \/ CronStart(TRUE, {TRUE}, [s \in {"S2"} |-> SnapChoices], MaxEvals)
  \/ Steps
SpecLegacy == InitLegacy /\ [][NextLegacy]_vars

\* The rule parser on its own: the environment has any of the rule strings,
\* and the string is parsed.
InitParse ==
  /\ ruleString \in RuleStrings
  /\ priceLevels = EmptyMap
  /\ store = EmptyMap
  /\ InitRuns
\* const priceLevels = parsePriceLevels(env.PRICE_LEVELS ?? "")
ParseStep ==
  /\ ev = NoEv
  /\ priceLevels' = ParsePriceLevels(ruleString, EmptyMap)
  /\ ev' = [kind |-> "parsed"]
  /\ UNCHANGED <<store, clock, evals, pc, force, symbols, snapshots, idx, state, step,
                 sentKeys, details, sent, ruleString, didRead, notifs, trace, store0,
                 pending, lastNotif, lastKept, lastLost, edgeSeen, edgeKept, shadow>>
NextParse == ParseStep
SpecParse == InitParse /\ [][NextParse]_vars

\* The snapshots of the overlapping cycles: with a trade price, and with a
\* minute bar or a previous close.
OverlapChoices ==
  { c \in SnapChoices : c.latestTrade # Null /\ (c.minuteBar # Null \/ c.prevDailyBar # Null) }
\* Overlapping cycles: a scheduled run and an on-demand run may interleave
\* at every await (only S1 has snapshots, all runs are in normal mode, every
\* fetch succeeds).
NextOverlap ==
  \/ OnceStart(FALSE, {FALSE}, {TRUE}, [s \in {"S1"} |-> OverlapChoices], MaxOverlapEvals)
  \/ CronStart(FALSE, {TRUE}, [s \in {"S1"} |-> OverlapChoices], MaxOverlapEvals)
  \/ Steps
SpecOverlap == Init /\ [][NextOverlap]_vars

(* ------------------------------------------------------------ properties *)
\* The tryAlert call just made, of a run in normal mode / in force mode.
NormalCall == ev.kind = "alert" /\ ~ev.force
ForceCall == ev.kind = "alert" /\ ev.force
\* The decision rule on what the call found: condition true, stored wasMet
\* false (absent: false), cooldown elapsed since lastFiredAt (absent: never).
RuleFires == ev.cond /\ ~ev.prev /\ ev.now - ev.last >= CooldownMs
\* The call met a rising edge before the cooldown had elapsed.
EdgeInCooldown == ev.cond /\ ~ev.prev /\ ev.now - ev.last < CooldownMs

\* C1, as claimed: a rising edge met in normal mode before the cooldown has
\* elapsed sends nothing at that call, and nothing is sent in normal mode for
\* that (symbol, condition) until the condition has been evaluated false.
C1_SuppressedEdgeConsumed ==
  NormalCall => /\ EdgeInCooldown => ~ev.sent
                /\ ev.seen => ~ev.sent

\* C1, amended: the same, for the suppressed edges of evaluations that went
\* on to persist the symbol's state (no delivery and no write of that
\* evaluation failed).
C1_PersistedEdgeConsumed ==
  NormalCall => /\ EdgeInCooldown => ~ev.sent
                /\ ev.kept => ~ev.sent

\* C1 witness: a condition whose suppressed edge was persisted is evaluated
\* true again once the cooldown has elapsed, and nothing is sent.
C1_Witness ==
  /\ NormalCall /\ ev.kept /\ ev.cond
  /\ ev.now - ev.last >= CooldownMs
  /\ ~ev.sent

C2_ForceNeverWrites ==
  \A p \in Procs : (pc[p] # "idle" /\ force[p]) => store = store0[p]

\* C2 witness: a force run that notified is done, over a store that holds a record.
C2_Witness ==
  /\ pc["once"] = "done" /\ force["once"]
  /\ sent > 0
  /\ store # EmptyMap

\* C4, as claimed: in normal mode a notification is delivered exactly when
\* the decision rule fires, and lastFiredAt is set to now exactly then.
C4_DeliveredIffRule ==
  NormalCall =>
    /\ ev.sent <=> RuleFires
    /\ ev.sent => Get(ev.after.lastSentAt, ev.key, Null) = ev.now
    /\ ~ev.sent => ev.after.lastSentAt = ev.before.lastSentAt

\* C4, amended: in normal mode, for a condition that is reached, the
\* delivery is attempted exactly when the decision rule fires, the notification
\* is delivered exactly when the attempt succeeds, and lastFiredAt is set to
\* now exactly when a notification is delivered.
C4_AttemptedIffRule ==
  NormalCall =>
    /\ ev.called <=> RuleFires
    /\ ev.sent <=> (RuleFires /\ ev.ok)
    /\ ev.sent => Get(ev.after.lastSentAt, ev.key, Null) = ev.now
    /\ ~ev.sent => ev.after.lastSentAt = ev.before.lastSentAt

\* C4 witness: a condition that was met and is still true (MET -> MET) is
\* evaluated after its cooldown has elapsed, and nothing is sent.
C4_Witness ==
  /\ NormalCall /\ ev.cond /\ ev.prev
  /\ ev.now - ev.last >= CooldownMs
  /\ ~ev.sent


\* The symbol of the call had no persisted record when it was evaluated.
NoRecord == ev.symbol \notin DOMAIN store
\* The condition of key for the symbol in the batch of run p.
CondOf(p, symbol, key) ==
  LET snap == snapshots[p][symbol]
  IN IF p = "once"
     THEN OnceCond(key, OnceRules(symbol), OnceCurrentPrice(snap), OncePrevClose(snap))
     ELSE CronCond(key, CronRules(symbol), CronCurrentPrice(snap), CronPrevClose(snap))
\* The keys tryAlert is called with for the symbol in run p.
CallsOf(p, symbol) ==
  IF p = "once" THEN Range(OnceCalls(OnceRules(symbol)))
  ELSE Range(CronCalls(CronRules(symbol)))

\* C5 as stated: in a normal-mode cycle for a symbol with no stored state,
\* every applicable condition that is true has a notification delivered.
C5_EmptyStateTrueDelivered ==
  (NormalCall /\ NoRecord /\ ev.cond) => ev.sent

\* C5: in a normal-mode cycle for a symbol with no stored state, a delivery
\* is attempted for a condition exactly when it is true, and when the
\* evaluation ends with a successful write, the persisted state of every
\* applicable condition that is true has lastFiredAt = now and wasMet = true
\* and its notification was delivered, while every condition that is false
\* has wasMet = false, no lastFiredAt and no notification.
C5_EmptyStateFirstCycle ==
  /\ (NormalCall /\ NoRecord) =>
       /\ ev.called <=> ev.cond
       /\ ev.sent <=> (ev.cond /\ ev.ok)
  /\ (ev.kind = "put" /\ ev.ok /\ ev.over = [absent |-> TRUE]) =>
       LET p == ev.proc
           rec == store[ev.symbol]
           keys == Range(Last(trace[p]).sent)
       IN \A k \in CallsOf(p, ev.symbol) :
            IF CondOf(p, ev.symbol, k)
            THEN /\ k \in keys
                 /\ Get(rec.lastSentAt, k, Null) = clock
                 /\ Get(rec.lastCond, k, FALSE)
            ELSE /\ k \notin keys
                 /\ k \notin DOMAIN rec.lastSentAt
                 /\ k \in DOMAIN rec.lastCond /\ ~rec.lastCond[k]
C5_Witness ==
  /\ ev.kind = "put" /\ ev.ok /\ ev.over = [absent |-> TRUE]
  /\ \E k \in CallsOf(ev.proc, ev.symbol) : CondOf(ev.proc, ev.symbol, k)
  /\ \E k \in CallsOf(ev.proc, ev.symbol) : ~CondOf(ev.proc, ev.symbol, k)

\* C6 as stated: in a force-mode cycle a notification is delivered if and
\* only if the condition is true this cycle.
C6_ForceDeliveredIffCond == ForceCall => (ev.sent <=> ev.cond)

\* C6: in a force-mode cycle a delivery is attempted if and only if the
\* condition is true, whatever the stored wasMet and lastFiredAt are, and it
\* is delivered if and only if the attempt succeeds; the call changes neither
\* the state in memory nor the store, nor the record of normal-mode
\* notifications and edges, on which a later normal-mode cycle decides.
C6_ForceAttemptedIffCond ==
  ForceCall =>
    /\ ev.called <=> ev.cond
    /\ ev.sent <=> (ev.cond /\ ev.ok)
    /\ ev.after = ev.before
    /\ store = store0[ev.proc]
    /\ lastNotif[ev.symbol][ev.key] = ev.prevNotif
    /\ edgeSeen[ev.symbol][ev.key] = ev.seen
C6_Witness ==
  ForceCall /\ ev.sent /\ ev.prev /\ ev.hadLast /\ ev.now - ev.last < CooldownMs

\* The symbol has no entry in the batch, or neither a latest trade price nor
\* an intraday bar close.
Unpriced(batch, symbol) ==
  IF symbol \notin DOMAIN batch THEN TRUE
  ELSE batch[symbol].latestTrade = Null /\ batch[symbol].minuteBar = Null

\* C7: a symbol with no entry in the batch, or with neither a latest trade
\* price nor an intraday bar close, gets no notification in the cycle, its
\* persisted state is neither read nor written, and the on-demand run
\* records a detail with note "no snapshot" or "no current price" and an
\* empty list of fired keys.
C7_UnpricedSymbolUntouched ==
  \A p \in Procs : \A i \in 1..Len(trace[p]) :
    LET symbol == symbols[p][i]
    IN Unpriced(snapshots[p], symbol) =>
         /\ trace[p][i].symbol = symbol
         /\ trace[p][i].outcome = "skip"
         /\ ~trace[p][i].read
         /\ trace[p][i].sent = <<>>
         /\ \A j \in 1..Len(notifs[p]) : notifs[p][j][1] # symbol
         /\ Rec(store, symbol) = Rec(store0[p], symbol)
         /\ p = "once" =>
              /\ details[i].symbol = symbol
              /\ details[i].sent = <<>>
              /\ details[i].note = IF symbol \notin DOMAIN snapshots[p]
                                   THEN "no snapshot" ELSE "no current price"
C7_Witness ==
  /\ pc["once"] = "done" /\ Len(details) = 2
  /\ details[1].note = "no snapshot"
  /\ details[2].note = "no current price"
  /\ details[2].symbol \in DOMAIN store

\* C8: when a delivery fails in a normal-mode evaluation of a symbol, the
\* symbol's evaluation ends there with the error outcome, its persisted
\* state is as it was before the cycle, the state in memory is dropped, the
\* on-demand detail has note "error", and the loop goes on: a finished
\* cycle has gone through every symbol of its list.
C8_DeliveryFailureIsolated ==
  /\ (NormalCall /\ ev.threw) =>
       LET p == ev.proc
       IN /\ Last(trace[p]).symbol = ev.symbol
          /\ Last(trace[p]).outcome = "error"
          /\ pc[p] = "loop"
          /\ state[p] = EmptyState
          /\ Rec(store, ev.symbol) = Rec(store0[p], ev.symbol)
          /\ p = "once" => Last(details).note = "error"
  /\ \A p \in Procs :
       pc[p] = "done" =>
         /\ Len(trace[p]) = Len(symbols[p])
         /\ \A i \in 1..Len(trace[p]) :
              /\ trace[p][i].symbol = symbols[p][i]
              /\ (~force[p] /\ trace[p][i].outcome = "error") =>
                   Rec(store, symbols[p][i]) = Rec(store0[p], symbols[p][i])
C8_Witness ==
  /\ pc["once"] = "done" /\ ~force["once"] /\ Len(trace["once"]) = 2
  /\ trace["once"][1].outcome = "error" /\ trace["once"][1].sent # <<>>
  /\ trace["once"][2].outcome = "ok" /\ trace["once"][2].read

\* C9: whatever two overlapping cycles read and notified, a write that
\* succeeds leaves the writer's state as the symbol's persisted record: the
\* record the other cycle wrote is overwritten, nothing of it is kept.
C9_LastWriterWins ==
  (ev.kind = "put" /\ ev.ok) => Rec(store, ev.symbol) = ev.wrote
\* Both cycles are normal, started from the same record of the symbol, both
\* notified the same condition, and the second write replaces the first.
C9_Witness ==
  /\ ev.kind = "put" /\ ev.ok
  /\ \E q \in Procs \ {ev.proc} :
       /\ ~force[ev.proc] /\ ~force[q] /\ pc[q] # "idle"
       /\ Rec(store0[q], ev.symbol) = Rec(store0[ev.proc], ev.symbol)
       /\ \E k \in Keys : /\ <<ev.symbol, k>> \in Range(notifs[q])
                          /\ <<ev.symbol, k>> \in Range(notifs[ev.proc])
       /\ \E i \in 1..Len(trace[q]) : /\ trace[q][i].symbol = ev.symbol
                                      /\ trace[q][i].outcome = "ok"
       /\ ev.over # Rec(store0[q], ev.symbol)
       /\ ev.over # ev.wrote

\* C10: runCron, given the batch, the persisted states, the clock readings
\* and the delivery outcomes of a normal on-demand run without symbol
\* override, takes the same steps, notifies the same sequence of (symbol,
\* condition) pairs and leaves the same persisted state for every symbol.
C10_CronEqualsOnce ==
  shadow.on =>
    /\ shadow.sync
    /\ shadow.notifs = notifs["once"]
    /\ shadow.kv = store
    /\ shadow.state = state["once"]
C10_Witness ==
  /\ shadow.on /\ pc["once"] = "done"
  /\ Len(notifs["once"]) >= 2
  /\ \E i \in 1..Len(trace["once"]) : trace["once"][i].outcome = "error"
  /\ store # store0["once"]


\* C11: when the snapshot fetch of a cycle fails, scheduled or on-demand,
\* the cycle ends there: no symbol is evaluated, no persisted state is read
\* or written and no notification is delivered in that cycle.
C11_FetchFailureAborts ==
  /\ (ev.kind = "start" /\ ~ev.fetched) => pc[ev.proc] = "failed"
  /\ \A p \in Procs :
       pc[p] = "failed" =>
         /\ store = store0[p]
         /\ trace[p] = <<>> /\ notifs[p] = <<>>
         /\ ~didRead[p] /\ state[p] = EmptyState /\ sentKeys[p] = <<>>
         /\ p = "once" => (details = <<>> /\ sent = 0)
C11_Witness ==
  /\ pc["cron"] = "failed" /\ store # EmptyMap
  /\ \E s \in Range(symbols["cron"]) : s \in DOMAIN store


\* C12: a POST /trigger-alerts request whose token is missing, empty or not
\* the configured one is answered 401 and changes nothing (no fetch, no
\* store access, no notification, no run started); an on-demand run starts
\* only with a non-empty token equal to the configured one.
C12_UnauthorizedRunsNothing ==
  [][ /\ ev'.kind = "reject" =>
           /\ ev'.token = NoHeader \/ ev'.token = "" \/ ev'.token # TriggerToken
           /\ ev'.status = 401
           /\ UNCHANGED <<progVars, didRead, notifs, trace, lastNotif, shadow>>
      /\ (pc["once"] = "idle" /\ pc'["once"] # "idle") =>
           /\ ev'.kind = "start" /\ ev'.proc = "once"
           /\ ev'.token = TriggerToken
           /\ ev'.token # NoHeader /\ ev'.token # "" ]_vars
C12_Witness ==
  ev.kind = "reject" /\ ev.token = "wrong" /\ store # EmptyMap


\* The finite value a list of k=v clauses gives key, Null when it gives none.
RECURSIVE GivenBy(_, _)
GivenBy(kvs, key) ==
  IF kvs = <<>> THEN Null
  ELSE LET kv == kvs[Len(kvs)]
       IN IF kv.k = key /\ kv.v # NaN THEN kv.v
          ELSE GivenBy(SubSeq(kvs, 1, Len(kvs) - 1), key)
\* The value of key in the last chunk of the rule string that is about the
\* symbol and gives key a value, Null when there is none.
RECURSIVE LastGiven(_, _, _)
LastGiven(input, symbol, key) ==
  IF input = <<>> THEN Null
  ELSE LET part == input[Len(input)]
       IN IF Normalise(part.symRaw) = symbol /\ GivenBy(part.rulesRaw, key) # Null
          THEN GivenBy(part.rulesRaw, key)
          ELSE LastGiven(SubSeq(input, 1, Len(input) - 1), symbol, key)

\* C13 as stated: for every symbol the parsed below (resp. above) threshold
\* is the value given by the last chunk of the symbol that specifies below
\* (resp. above), absent when no chunk specifies it.
C13_PerKeyLastWins ==
  ev.kind = "parsed" =>
    \A s \in Symbols :
      LET rules == Get(priceLevels, s, [below |-> Null, above |-> Null])
      IN /\ rules.below = LastGiven(ruleString, s, "below")
         /\ rules.above = LastGiven(ruleString, s, "above")


\* The (symbol, key) pairs the details list, in order.
RECURSIVE Listed(_)
Listed(ds) ==
  IF ds = <<>> THEN <<>>
  ELSE Listed(SubSeq(ds, 1, Len(ds) - 1))
       \o [i \in 1..Len(Last(ds).sent) |-> <<Last(ds).symbol, Last(ds).sent[i]>>]

\* C14: the summary an on-demand run returns has one detail per symbol of
\* the evaluated list, in list order, symbols is the length of the list, and
\* sent is the number of keys the details list, which are exactly the
\* notifications delivered in the cycle.
C14_SummaryConsistent ==
  pc["once"] = "done" =>
    /\ Summary.symbols = Len(symbols["once"])
    /\ Len(Summary.details) = Len(symbols["once"])
    /\ \A i \in 1..Len(Summary.details) : Summary.details[i].symbol = symbols["once"][i]
    /\ Summary.sent = Len(Listed(Summary.details))
    /\ Listed(Summary.details) = notifs["once"]
C14_Witness ==
  /\ pc["once"] = "done" /\ Len(details) = 2
  /\ details[1].note = "error" /\ details[1].sent # <<>>
  /\ details[2].note = "no snapshot"


\* The conditions that apply to a symbol: the percent ones always, a price
\* one when the rules of the symbol have its threshold.
Applicable(symbol) ==
  LET rules == Get(priceLevels, symbol, [below |-> Null, above |-> Null])
  IN {"pct_up", "pct_down"}
       \cup (IF rules.below # Null THEN {"price_below"} ELSE {})
       \cup (IF rules.above # Null THEN {"price_above"} ELSE {})
\* What a record holds for a key: wasMet and lastFiredAt, present or not.
Entry(rec, key) ==
  LET r == IF rec = [absent |-> TRUE] THEN EmptyState ELSE rec
  IN <<key \in DOMAIN r.lastCond, Get(r.lastCond, key, FALSE),
       key \in DOMAIN r.lastSentAt, Get(r.lastSentAt, key, Null)>>

\* C15: when a normal-mode evaluation of a symbol ends with its write, the
\* persisted wasMet of every applicable condition is the condition's truth
\* value in this cycle, and the wasMet and lastFiredAt of a price condition
\* whose threshold is not configured are as they were.
C15_WasMetIsTruthValue ==
  (ev.kind = "put" /\ ev.ok) =>
    \A k \in Keys :
      IF k \in Applicable(ev.symbol)
      THEN /\ k \in DOMAIN store[ev.symbol].lastCond
           /\ store[ev.symbol].lastCond[k] = CondOf(ev.proc, ev.symbol, k)
      ELSE Entry(store[ev.symbol], k) = Entry(ev.over, k)
C15_Witness ==
  /\ ev.kind = "put" /\ ev.ok /\ ev.symbol = "S2"
  /\ Entry(ev.over, "price_below") = <<TRUE, TRUE, TRUE, StartTime - 1>>
  /\ CondOf(ev.proc, "S2", "price_above") /\ ~CondOf(ev.proc, "S2", "pct_down")


\* The snapshot's previous close is absent or not greater than 0.
NoPrevClose(snap) == snap.prevDailyBar = Null \/ snap.prevDailyBar <= 0
PctKeys == {"pct_up", "pct_down"}

\* C16: when the previous close is absent or not greater than 0, pct_up and
\* pct_down are false in that cycle: no delivery is attempted for them in
\* normal or force mode, a normal call records wasMet = false, and the
\* state a normal cycle persists has wasMet = false for both.
C16_NoPrevCloseNoPct ==
  /\ ( /\ ev.kind = "alert" /\ ev.key \in PctKeys
       /\ NoPrevClose(snapshots[ev.proc][ev.symbol]) ) =>
       /\ ~ev.cond /\ ~ev.called /\ ~ev.sent
       /\ ~ev.force => (ev.key \in DOMAIN ev.after.lastCond /\ ~ev.after.lastCond[ev.key])
  /\ ( /\ ev.kind = "put" /\ ev.ok
       /\ NoPrevClose(snapshots[ev.proc][ev.symbol]) ) =>
       /\ \A k \in PctKeys : /\ k \in DOMAIN store[ev.symbol].lastCond
                             /\ ~store[ev.symbol].lastCond[k]
                             /\ k \notin Range(Last(trace[ev.proc]).sent)
\* A pct condition that was met is stored as not met by such a cycle.
C16_Witness ==
  /\ ev.kind = "put" /\ ev.ok
  /\ snapshots[ev.proc][ev.symbol].prevDailyBar = Null
  /\ Entry(ev.over, "pct_down")[2]
  /\ ~store[ev.symbol].lastCond["pct_down"]


\* The call is about a pair whose last persisted-or-not notification was
\* delivered in an evaluation whose state write failed.
AfterLostWrite == NormalCall /\ ev.prevLost # Null

\* C17 as stated: after a write failure that followed a delivery, a
\* following normal-mode cycle in which the condition is still true delivers
\* a second notification for the pair.
C17_LostWriteRedelivers ==
  (AfterLostWrite /\ ev.cond) => ev.sent

\* C17: after a write failure that followed a delivery, the persisted state
\* is stale (wasMet false, lastFiredAt at least a cooldown older than the
\* delivery), and a following normal-mode cycle that reaches the condition
\* while it is true attempts a second delivery, whatever time has elapsed
\* since the first; the notification is delivered if the attempt succeeds.
C17_LostWriteReattempts ==
  AfterLostWrite =>
    /\ ~ev.prev
    /\ ev.last <= ev.prevLost - CooldownMs
    /\ ev.cond => (ev.called /\ (ev.sent <=> ev.ok))
C17_Witness ==
  /\ AfterLostWrite /\ ev.sent
  /\ ev.prevNotif = ev.prevLost
  /\ ev.now - ev.prevLost < CooldownMs


\* Run p is evaluating symbol s (between its read and its write).
Evaluating(p, s) ==
  /\ pc[p] \in {"alert", "put"}
  /\ symbols[p][idx[p]] = s

\* C18: the state a run loads for a symbol is that symbol's own record (or
\* the empty state when it has none); a step changes the persisted record of
\* a symbol only if it is a step of a run that is evaluating that symbol;
\* while a run is under way (runs one after the other),
\* the record of a symbol that is not in its list, or that the loop has not
\* reached yet, is as it was when the run started.
C18_OwnRecordOnly ==
  [][ /\ \A p \in Procs :
           (pc[p] = "loop" /\ pc'[p] = "alert") =>
             state'[p] = IF symbols[p][idx[p]] \in DOMAIN store
                         THEN store[symbols[p][idx[p]]] ELSE EmptyState
      /\ \A s \in Symbols :
           Rec(store', s) # Rec(store, s) => \E p \in Procs : Evaluating(p, s)
      /\ \A p \in Procs : \A s \in Symbols :
           ( /\ pc'[p] # "idle"
             /\ \A i \in 1..Len(symbols'[p]) : symbols'[p][i] = s => i > idx'[p]
                   \/ (i = idx'[p] /\ pc'[p] = "loop") ) =>
           Rec(store', s) = Rec(store0'[p], s) ]_vars
C18_Witness ==
  /\ ev.kind = "put" /\ ev.ok /\ ev.symbol = "S2"
  /\ symbols[ev.proc] = <<"S2">>
  /\ "S1" \in DOMAIN store /\ store["S1"] # store["S2"]
  /\ ev.over # Rec(store, "S2")


\* The persisted lastFiredAt of (symbol, key); Null when there is none.
FiredAt(kv, symbol, key) == Get(OnceLoad(kv, symbol).lastSentAt, key, Null)

\* C19: with runs one after the other, a step changes the persisted
\* lastFiredAt of (symbol, key) only if it is the successful write that ends
\* the symbol in a normal-mode run that delivered a notification for the key;
\* the new value is the time of that delivery and is later than the old one.
C19_FiredAtMonotone ==
  [][ \A s \in Symbols : \A k \in Keys :
        FiredAt(store', s, k) # FiredAt(store, s, k) =>
          /\ ev'.kind = "put" /\ ev'.ok /\ ev'.symbol = s
          /\ ~force[ev'.proc]
          /\ k \in Range(sentKeys[ev'.proc])
          /\ FiredAt(store', s, k) = lastNotif[s][k]
          /\ FiredAt(store', s, k) <= clock
          /\ FiredAt(store', s, k) > FiredAt(store, s, k) ]_vars
C19_Witness ==
  /\ ev.kind = "put" /\ ev.ok
  /\ \E k \in Keys :
       /\ k \in DOMAIN ev.wrote.lastSentAt
       /\ ev.over # [absent |-> TRUE]
       /\ k \in DOMAIN ev.over.lastSentAt
       /\ ev.over.lastSentAt[k] < ev.wrote.lastSentAt[k]
       /\ FiredAt(store, ev.symbol, k) = ev.wrote.lastSentAt[k]


\* wasMet of both percent conditions is true in the state st.
BothPctMet(st) ==
  Get(st.lastCond, "pct_up", FALSE) /\ Get(st.lastCond, "pct_down", FALSE)

\* C20: with a percent threshold above 0, the two percent conditions of the
\* symbol a run is evaluating are never both true, no run delivers a pct_up
\* and a pct_down notification for the same symbol, and neither the state a
\* run is about to write nor a persisted record has wasMet true for both.
C20_PctExclusive ==
  /\ PctThreshold > 0
  /\ \A p \in Procs :
       pc[p] \in {"alert", "put"} =>
         /\ ~(CondOf(p, symbols[p][idx[p]], "pct_up")
              /\ CondOf(p, symbols[p][idx[p]], "pct_down"))
         /\ pc[p] = "put" => ~BothPctMet(state[p])
  /\ \A p \in Procs : \A s \in Symbols :
       ~(<<s, "pct_up">> \in Range(notifs[p]) /\ <<s, "pct_down">> \in Range(notifs[p]))
  /\ \A s \in DOMAIN store : ~BothPctMet(store[s])
C20_Witness ==
  /\ ev.kind = "put" /\ ev.ok
  /\ ev.over # [absent |-> TRUE]
  /\ Get(ev.over.lastCond, "pct_down", FALSE)
  /\ Get(ev.wrote.lastCond, "pct_up", FALSE)
  /\ ~Get(ev.wrote.lastCond, "pct_down", TRUE)
  /\ <<ev.symbol, "pct_up">> \in Range(notifs[ev.proc])
  /\ store[ev.symbol] = ev.wrote

====
